---- MODULE Spec2Model ----
(***************************************************************************)
(* Encrypted persistence, backup and restore engine of the finance tracker *)
(* (src/v21_encrpt.py).                                                    *)
(*                                                                         *)
(* Encoding of values:                                                     *)
(*  - a text (str) is a sequence of strings.  <<>> is the empty string.    *)
(*    A Fernet token made under key k of the text s is <<Hdr(k)>> \o s:    *)
(*    it is never empty, never equal to s, and carries what is needed to   *)
(*    open it.  Any text that does not start with Hdr(k) fails             *)
(*    authentication under k (tampered, other key, never encrypted).       *)
(*  - a sealed byte blob is the record [kind, key, plain]; key NoKey is a  *)
(*    blob whose authentication fails under every key (tampered).          *)
(*  - a file is a record; Absent is the file that does not exist, Partial   *)
(*    a file whose write was interrupted.                                  *)
(*  - the key material is the passphrase setting, the salt file and the    *)
(*    key file; a key is named by a string: "k1", "k2" for generated keys, *)
(*    "d0", "d1", "d2" for keys derived from the passphrase and a salt.    *)
(*  - the per-call Fernet nonce is not represented.                        *)
(***************************************************************************)
EXTENDS Integers, Sequences, FiniteSets, TLC

VARIABLES
    fs,           \* the data directory DATA_DIR: one field per path
    keyMaterial,  \* FINANCE_PASSPHRASE, KDF_SALT_FILE and SECRET_KEY_FILE
    CIPHER,       \* the process's memoized key (module global CIPHER)
    pc,           \* "off" | "main" (imported, bootstrap done) | "serving", or
                  \* the start-up step last completed (see BootSteps)
    now,          \* rank of the wall-clock second of the last backup timestamp
    argv,         \* command line of the current or last process
    exitStatus,   \* how the last command, or the last save, ended
    bootLog,      \* what restore_from_db_dump_if_any logged at the last start
    arg,          \* argument register of the field-cipher calls
    res           \* result register of the field-cipher calls

vars == <<fs, keyMaterial, CIPHER, pc, now, argv, exitStatus, bootLog, arg, res>>

-----------------------------------------------------------------------------
(* Bounds and program constants *)

MaxRows == 2
MaxSaves == 22
MaxLen == 3
MaxSameSecond == 1
BACKUP_RETENTION == 20

KeyIds == {"k1", "k2"}   \* what Fernet.generate_key() can return
NoKey == "none"      \* no key: a header or blob that no key authenticates
FirstKey == "k1"     \* the key file an operator deletes (one key change)

-----------------------------------------------------------------------------
(* Fernet and the field cipher *)

\* the part of a token that binds it to the key it was made under
Hdr(k) == k

FernetEncrypt(k, s) == <<Hdr(k)>> \o s

FernetValid(k, s) == s # <<>> /\ Head(s) = Hdr(k)

FernetDecrypt(k, s) == Tail(s)

enc_text_plain(c, s) == s

enc_text_always(c, s) == FernetEncrypt(c, s)

enc_text(c, s) == IF s = <<>> THEN <<>> ELSE FernetEncrypt(c, s)

dec_text_strict(c, s) ==
    IF s = <<>> THEN <<>>
    ELSE IF FernetValid(c, s) THEN FernetDecrypt(c, s) ELSE <<>>

dec_text(c, s) ==
    IF s = <<>> THEN <<>>
    ELSE IF FernetValid(c, s) THEN FernetDecrypt(c, s) ELSE s

enc_bytes(c, b) == [kind |-> "sealed", key |-> c, plain |-> b]

\* CIPHER.decrypt(b) returns (TRUE) or raises InvalidToken (FALSE)
dec_ok(c, blob) == blob.kind = "sealed" /\ blob.key = c

dec_bytes(c, blob) == blob.plain

-----------------------------------------------------------------------------
(* Files *)

Absent == [kind |-> "absent"]

Exists(f) == f # Absent

\* a file whose write was interrupted: it holds none, or only the leading
\* part, of the bytes that were being written
Partial == [kind |-> "partial"]

\* open(path, "wb") empties the file at path, f.write(data) fills it; a process
\* stopped in between (completed = FALSE) leaves the file incomplete
write_file_secure(d, path, data, completed) ==
    [d EXCEPT ![path] = IF completed THEN data ELSE Partial]

EmptyDb == [kind |-> "db", table |-> TRUE, rows |-> <<>>, seq |-> 0]

HasTable(f) == Exists(f) /\ f.table

TableRows(f) == IF HasTable(f) THEN f.rows ELSE <<>>

-----------------------------------------------------------------------------
(* Key setup: passphrase, salt file, key file *)

\* FINANCE_PASSPHRASE: not set, set to white space only, set to a passphrase
Passphrases == {"unset", "blank", "pw"}

\* what os.urandom(16) can return
Salts == {"s1", "s2"}

\* a file whose bytes are not what the program wrote: a salt that is not 16
\* bytes long, a key that is not 32 url-safe base64-encoded bytes
Malformed == "malformed"

BytesFile(b) == [kind |-> "bytes", val |-> b]

\* a file that exists and cannot be opened for reading
Unreadable == [kind |-> "unreadable"]

NoKeyMaterial ==
    [passphrase |-> "unset", KDF_SALT_FILE |-> Absent, SECRET_KEY_FILE |-> Absent]

\* PBKDF2-HMAC-SHA-256 of the passphrase: one key per salt, for any salt
\* bytes whatever their length
PBKDF2HMAC(passphrase, salt) ==
    IF salt = "s1" THEN "d1" ELSE IF salt = "s2" THEN "d2" ELSE "d0"

\* Fernet(key) raises ValueError unless key is 32 url-safe base64-encoded bytes
FernetKeyOk(key) == key # Malformed

\* the results carry: the key material after the call, the bytes returned,
\* and whether the call returned (ok) or raised
load_or_create_salt_anew(km, rnd) ==
    [km |-> [km EXCEPT !.KDF_SALT_FILE = BytesFile(rnd)], val |-> rnd, ok |-> TRUE]

load_or_create_salt(km, rnd) ==
    IF Exists(km.KDF_SALT_FILE) THEN
        IF km.KDF_SALT_FILE = Unreadable
        THEN [km |-> km, val |-> Malformed, ok |-> FALSE]
        ELSE [km |-> km, val |-> km.KDF_SALT_FILE.val, ok |-> TRUE]
    ELSE [km |-> [km EXCEPT !.KDF_SALT_FILE = BytesFile(rnd)], val |-> rnd, ok |-> TRUE]

derive_key_from_passphrase(km, passphrase, rnd) ==
    LET r == load_or_create_salt(km, rnd)
    IN  [km |-> r.km, val |-> PBKDF2HMAC(passphrase, r.val), ok |-> r.ok]

load_or_create_filekey(km, rnd) ==
    IF Exists(km.SECRET_KEY_FILE) THEN
        IF km.SECRET_KEY_FILE = Unreadable
        THEN [km |-> km, val |-> Malformed, ok |-> FALSE]
        ELSE [km |-> km, val |-> km.SECRET_KEY_FILE.val, ok |-> TRUE]
    ELSE [km |-> [km EXCEPT !.SECRET_KEY_FILE = BytesFile(rnd)], val |-> rnd, ok |-> TRUE]

\* salt and key are what os.urandom and Fernet.generate_key return if called
get_cipher(km, salt, key) ==
    LET passphrase == IF km.passphrase = "blank" THEN "unset" ELSE km.passphrase
        r == IF passphrase # "unset"
             THEN derive_key_from_passphrase(km, passphrase, salt)
             ELSE load_or_create_filekey(km, key)
    IN  [km |-> r.km, key |-> r.val, ok |-> r.ok /\ FernetKeyOk(r.val)]

-----------------------------------------------------------------------------
(* SQLite: schema creation, the dump script and its execution *)

create_db(f) ==
    IF ~Exists(f) THEN EmptyDb
    ELSE IF f.table THEN f
    ELSE [f EXCEPT !.table = TRUE, !.rows = <<>>]

Max2(a, b) == IF a >= b THEN a ELSE b

RECURSIVE MaxId(_)
MaxId(rows) ==
    IF rows = <<>> THEN 0 ELSE Max2(Head(rows).id, MaxId(Tail(rows)))

InsertStmts(rows) == [i \in 1..Len(rows) |-> [op |-> "INSERT", row |-> rows[i]]]

iterdump(f) ==
    <<[op |-> "BEGIN"]>>
    \o (IF HasTable(f) THEN <<[op |-> "CREATE"]>> \o InsertStmts(f.rows) ELSE <<>>)
    \o (IF Exists(f) THEN <<[op |-> "DELSEQ"]>> ELSE <<>>)
    \o (IF Exists(f) /\ f.seq > 0 THEN <<[op |-> "SETSEQ", n |-> f.seq]>> ELSE <<>>)
    \o <<[op |-> "COMMIT"]>>

SqlScript(f) == [kind |-> "sql", script |-> iterdump(f)]

RECURSIVE InsertById(_, _)
InsertById(r, rows) ==
    IF rows = <<>> THEN <<r>>
    ELSE IF r.id < Head(rows).id THEN <<r>> \o rows
    ELSE <<Head(rows)>> \o InsertById(r, Tail(rows))

Fail(s) == [s EXCEPT !.err = TRUE]

ExecCreate(st, s) ==
    IF s.db.table THEN Fail(s) ELSE [s EXCEPT !.db.table = TRUE, !.db.rows = <<>>]

ExecStmt(st, s) ==
    IF s.err THEN s
    ELSE IF st.op = "BEGIN" THEN
        IF s.intx THEN Fail(s) ELSE [s EXCEPT !.intx = TRUE, !.saved = s.db]
    ELSE IF st.op = "COMMIT" THEN
        IF s.intx THEN [s EXCEPT !.intx = FALSE] ELSE Fail(s)
    ELSE IF st.op = "CREATE" THEN ExecCreate(st, s)
    ELSE IF st.op = "DROP" THEN
        [s EXCEPT !.db.table = FALSE, !.db.rows = <<>>, !.db.seq = 0]
    ELSE IF st.op = "INSERT" THEN
        IF ~s.db.table \/ \E i \in 1..Len(s.db.rows) : s.db.rows[i].id = st.row.id
        THEN Fail(s)
        ELSE [s EXCEPT !.db.rows = InsertById(st.row, s.db.rows),
                       !.db.seq = Max2(s.db.seq, st.row.id)]
    ELSE IF st.op = "DELSEQ" THEN [s EXCEPT !.db.seq = 0]
    ELSE IF st.op = "SETSEQ" THEN [s EXCEPT !.db.seq = st.n]
    ELSE Fail(s)

RECURSIVE ExecAll(_, _)
ExecAll(script, s) ==
    IF script = <<>> THEN s
    ELSE ExecAll(Tail(script), ExecStmt(Head(script), s))

\* conn.executescript(sql) on an open database f: the statements run in order
\* and stop at the first error; what an open transaction changed is rolled
\* back when the connection is dropped without a commit.
executescript(f, content) ==
    IF content.kind # "sql" THEN [db |-> f, ok |-> FALSE]
    ELSE LET s == ExecAll(content.script,
                          [db |-> f, saved |-> f, intx |-> FALSE, err |-> FALSE])
         IN  IF s.err THEN [db |-> IF s.intx THEN s.saved ELSE s.db, ok |-> FALSE]
             ELSE [db |-> s.db, ok |-> TRUE]

DropTable == [kind |-> "sql", script |-> <<[op |-> "DROP"]>>]

\* sqlite3.connect(DB_FILE) creates the file when it does not exist
connect(f) ==
    IF Exists(f) THEN f ELSE [kind |-> "db", table |-> FALSE, rows |-> <<>>, seq |-> 0]

\* INSERT INTO finance (...) VALUES (...) with an AUTOINCREMENT id
InsertRow(f, date, note, tags) ==
    LET id == Max2(f.seq, MaxId(f.rows)) + 1
    IN  [f EXCEPT !.rows = Append(f.rows, [id |-> id, date |-> date,
                                           note |-> note, tags |-> tags]),
                  !.seq = id]

-----------------------------------------------------------------------------
(* The plaintext tabular export and the sealed CSV/XLSX artifacts *)

\* ORDER BY date ASC, id ASC
RowBefore(a, b) == a.date < b.date \/ (a.date = b.date /\ a.id < b.id)

RECURSIVE InsertOrdered(_, _)
InsertOrdered(r, s) ==
    IF s = <<>> THEN <<r>>
    ELSE IF RowBefore(r, Head(s)) THEN <<r>> \o s
    ELSE <<Head(s)>> \o InsertOrdered(r, Tail(s))

RECURSIVE OrderByDateId(_)
OrderByDateId(rows) ==
    IF rows = <<>> THEN <<>>
    ELSE InsertOrdered(Head(rows), OrderByDateId(Tail(rows)))

\* one exported line: Note and Tags go through dec_text
CsvRow(c, r) ==
    [date |-> r.date, note |-> dec_text(c, r.note), tags |-> dec_text(c, r.tags)]

CsvOf(rows) == [kind |-> "csv", rows |-> rows]

XlsxOf(rows) == [kind |-> "xlsx", rows |-> rows]

\* pd.read_csv of a file this program wrote: the lines, in file order
read_csv(f) == f.rows

\* pd.read_sql_query on a database without the finance table raises
rebuild_raises(d) == Exists(d.DB_FILE) /\ ~d.DB_FILE.table

rebuild_csv_from_db(d, c) ==
    IF ~Exists(d.DB_FILE) THEN d
    ELSE LET sorted == OrderByDateId(d.DB_FILE.rows)
         IN  [d EXCEPT !.CSV_FILE =
                CsvOf([i \in 1..Len(sorted) |-> CsvRow(c, sorted[i])])]

append_to_csv(d, row) ==
    IF Exists(d.CSV_FILE)
    THEN [d EXCEPT !.CSV_FILE = CsvOf(Append(read_csv(d.CSV_FILE), row))]
    ELSE [d EXCEPT !.CSV_FILE = CsvOf(<<row>>)]

persist_csv_and_excel_encrypted(d, c) ==
    LET d1 == IF Exists(d.CSV_FILE) THEN d ELSE rebuild_csv_from_db(d, c)
        df == IF Exists(d1.CSV_FILE) THEN read_csv(d1.CSV_FILE) ELSE <<>>
    IN  [d1 EXCEPT !.CSV_ENC = enc_bytes(c, CsvOf(df)),
                   !.XLSX_ENC = enc_bytes(c, XlsxOf(df))]

-----------------------------------------------------------------------------
(* The sealed database dump and the start-up restore *)

persist_db_dump(d, c) ==
    LET f == connect(d.DB_FILE)
    IN  [d EXCEPT !.DB_FILE = f, !.DB_DUMP_ENC = enc_bytes(c, SqlScript(f))]

restore_if_any_dropping(d, c) ==
    IF ~Exists(d.DB_DUMP_ENC) THEN [fs |-> d, log |-> "none"]
    ELSE IF ~dec_ok(c, d.DB_DUMP_ENC) THEN [fs |-> d, log |-> "failed"]
    ELSE LET r == executescript(executescript(connect(d.DB_FILE), DropTable).db,
                                dec_bytes(c, d.DB_DUMP_ENC))
         IN  [fs |-> [d EXCEPT !.DB_FILE = r.db],
              log |-> IF r.ok THEN "restored" ELSE "failed"]

restore_from_db_dump_if_any(d, c) ==
    IF ~Exists(d.DB_DUMP_ENC) THEN [fs |-> d, log |-> "none"]
    ELSE IF ~dec_ok(c, d.DB_DUMP_ENC) THEN [fs |-> d, log |-> "failed"]
    ELSE LET r == executescript(connect(d.DB_FILE), dec_bytes(c, d.DB_DUMP_ENC))
         IN  [fs |-> [d EXCEPT !.DB_FILE = r.db],
              log |-> IF r.ok THEN "restored" ELSE "failed"]

-----------------------------------------------------------------------------
(* Backups *)

Tags == {"dbdump", "csv", "excel", "state"}

\* open(out, "wb"): a record of the same name is replaced
WriteBackup(folder, tag, ts, data) ==
    {b \in folder : ~(b.tag = tag /\ b.ts = ts)}
        \cup {[tag |-> tag, ts |-> ts, data |-> data]}

\* sorted(names, reverse=True): for one prefix the names order as their
\* zero-padded timestamps do
RECURSIVE SortDesc(_)
SortDesc(S) ==
    IF S = {} THEN <<>>
    ELSE LET m == CHOOSE x \in S : \A y \in S : y <= x
         IN  <<m>> \o SortDesc(S \ {m})

rotate_keep_all(folder, tag) == folder

rotate_backups(folder, tag) ==
    LET files == SortDesc({b.ts : b \in {x \in folder : x.tag = tag}})
        doomed == {files[i] : i \in (BACKUP_RETENTION + 1)..Len(files)}
    IN  {b \in folder : ~(b.tag = tag /\ b.ts \in doomed)}

copy_enc(d, c, src, tag, ts) ==
    IF ~Exists(src) THEN d
    ELSE LET plain == IF dec_ok(c, src) THEN dec_bytes(c, src) ELSE src
         IN  [d EXCEPT !.BACKUP_FOLDER =
                rotate_backups(WriteBackup(@, tag, ts, enc_bytes(c, plain)), tag)]

backup_all(d, c, ts) ==
    LET d1 == persist_db_dump(d, c)
        d2 == persist_csv_and_excel_encrypted(d1, c)
        d3 == copy_enc(d2, c, d2.DB_DUMP_ENC, "dbdump", ts)
        d4 == copy_enc(d3, c, d3.CSV_ENC, "csv", ts)
        d5 == copy_enc(d4, c, d4.XLSX_ENC, "excel", ts)
    IN  copy_enc(d5, c, d5.STATE_ENC, "state", ts)

\* copy_enc when writing the record of category failing raises OSError
copy_enc_io(d, c, src, tag, ts, failing) ==
    IF ~Exists(src) THEN [fs |-> d, raised |-> FALSE]
    ELSE IF tag = failing THEN [fs |-> d, raised |-> TRUE]
    ELSE [fs |-> copy_enc(d, c, src, tag, ts), raised |-> FALSE]

\* backup_all when writing the record of category failing raises OSError: an
\* exception leaves backup_all at the statement that raised
backup_all_io(d, c, ts, failing) ==
    LET d2 == persist_csv_and_excel_encrypted(persist_db_dump(d, c), c)
        r1 == copy_enc_io(d2, c, d2.DB_DUMP_ENC, "dbdump", ts, failing)
        r2 == copy_enc_io(r1.fs, c, r1.fs.CSV_ENC, "csv", ts, failing)
        r3 == copy_enc_io(r2.fs, c, r2.fs.XLSX_ENC, "excel", ts, failing)
    IN  IF r1.raised THEN r1 ELSE IF r2.raised THEN r2 ELSE IF r3.raised THEN r3
        ELSE copy_enc_io(r3.fs, c, r3.fs.STATE_ENC, "state", ts, failing)

-----------------------------------------------------------------------------
(* save_entry, the operator restore and bootstrap *)

\* the steps of save_entry before backup_all: the row insert, the workbook
\* append, the CSV append, then the file each sealed write replaces
SaveSteps == <<"insert", "workbook", "csv", "CSV_ENC", "XLSX_ENC", "DB_DUMP_ENC">>

\* the data directory after the first k steps of save_entry
save_entry_upto(d, c, date, note, tags, k) ==
    LET d1 == [d EXCEPT !.DB_FILE =
                 InsertRow(connect(@), date, enc_text(c, note), enc_text(c, tags))]
        line == [date |-> date, note |-> note, tags |-> tags]
        d2 == [d1 EXCEPT !.EXCEL_FILE =
                 XlsxOf(Append(IF Exists(@) THEN @.rows ELSE <<>>, line))]
        d3 == append_to_csv(d2, line)
        d5 == persist_csv_and_excel_encrypted(d3, c)
        d4 == [d5 EXCEPT !.XLSX_ENC = d3.XLSX_ENC]
        d6 == persist_db_dump(d5, c)
    IN  IF k = 0 THEN d ELSE IF k = 1 THEN d1 ELSE IF k = 2 THEN d2
        ELSE IF k = 3 THEN d3 ELSE IF k = 4 THEN d4 ELSE IF k = 5 THEN d5 ELSE d6

save_entry(d, c, date, note, tags, ts) ==
    backup_all(save_entry_upto(d, c, date, note, tags, Len(SaveSteps)), c, ts)

restore_drop_before_decrypt(d, c, src) ==
    LET dropped == [d EXCEPT !.DB_FILE = executescript(connect(@), DropTable).db]
    IN  IF ~Exists(src) \/ ~dec_ok(c, src) THEN [fs |-> dropped, ok |-> FALSE]
        ELSE LET r == executescript(dropped.DB_FILE, dec_bytes(c, src))
                 d2 == [dropped EXCEPT !.DB_FILE = r.db]
             IN  IF ~r.ok \/ rebuild_raises(d2) THEN [fs |-> d2, ok |-> FALSE]
                 ELSE [fs |-> persist_csv_and_excel_encrypted(
                                 rebuild_csv_from_db(d2, c), c),
                       ok |-> TRUE]

restore_without_drop(d, c, src) ==
    IF ~Exists(src) \/ ~dec_ok(c, src) THEN [fs |-> d, ok |-> FALSE]
    ELSE LET r == executescript(connect(d.DB_FILE), dec_bytes(c, src))
             d2 == [d EXCEPT !.DB_FILE = r.db]
         IN  IF ~r.ok \/ rebuild_raises(d2) THEN [fs |-> d2, ok |-> FALSE]
             ELSE [fs |-> persist_csv_and_excel_encrypted(
                             rebuild_csv_from_db(d2, c), c),
                   ok |-> TRUE]

\* src is the content of the file at enc_path (Absent: no such file)
restore_from_encrypted_dump(d, c, src) ==
    IF ~Exists(src) \/ ~dec_ok(c, src) THEN [fs |-> d, ok |-> FALSE]
    ELSE LET plain == dec_bytes(c, src)
             d1 == [d EXCEPT !.TMP_DUMP = plain]
             dropped == executescript(connect(d.DB_FILE), DropTable).db
             r == executescript(dropped, plain)
             d2 == [d1 EXCEPT !.DB_FILE = r.db]
             d3 == [d2 EXCEPT !.TMP_DUMP = Absent]
         IN  IF ~r.ok THEN [fs |-> d2, ok |-> FALSE]
             ELSE IF rebuild_raises(d3) THEN [fs |-> d3, ok |-> FALSE]
             ELSE [fs |-> persist_csv_and_excel_encrypted(
                             rebuild_csv_from_db(d3, c), c),
                   ok |-> TRUE]

save_state(d, c, day_index, balance_rollover) ==
    LET state == [kind |-> "json", day_index |-> day_index,
                  balance_rollover |-> balance_rollover]
    IN  [d EXCEPT !.STATE_FILE = state, !.STATE_ENC = enc_bytes(c, state)]

\* bootstrap() after the import-time create_db(); the result carries what the
\* restore step logged
bootstrap(d, c) ==
    LET d1 == [d EXCEPT !.DB_FILE = create_db(@)]
        r == restore_from_db_dump_if_any(d1, c)
        d2 == r.fs
        d3 == IF Exists(d2.CSV_FILE) THEN d2 ELSE rebuild_csv_from_db(d2, c)
    IN  [fs |-> persist_csv_and_excel_encrypted(d3, c), log |-> r.log]

-----------------------------------------------------------------------------
(* Inputs *)

Coffee == <<"coffee with friends">>
FoodTag == <<"#food">>

Notes == {<<>>, Coffee}
Dates == {1, 2}

auto_tag(note) == IF note = Coffee THEN FoodTag ELSE <<>>

\* texts handed to the field cipher: plain letters, token headers of each key
\* and a header no key opens
Alphabet == {"a", "b"} \cup {Hdr(k) : k \in KeyIds \cup {NoKey}}
TextInputs == UNION {[1..n -> Alphabet] : n \in 0..MaxLen}

\* paths an operator can hand to the restore command
DumpPath == [dir |-> "data", name |-> "DB_DUMP_ENC", ts |-> 0]
CsvEncPath == [dir |-> "data", name |-> "CSV_ENC", ts |-> 0]
TamperedPath == [dir |-> "ext", name |-> "tampered", ts |-> 0]
BackupPath(tag, ts) == [dir |-> "backup", name |-> tag, ts |-> ts]
NoPath == [dir |-> "none", name |-> "none", ts |-> 0]

\* a sealed blob with a flipped byte
Tamper(blob) == IF Exists(blob) THEN [blob EXCEPT !.key = NoKey] ELSE Absent

ReadPath(d, p) ==
    IF p.dir = "data" THEN
        IF p.name = "DB_DUMP_ENC" THEN d.DB_DUMP_ENC ELSE d.CSV_ENC
    ELSE IF p.dir = "backup" THEN
        IF \E b \in d.BACKUP_FOLDER : b.tag = p.name /\ b.ts = p.ts
        THEN (CHOOSE b \in d.BACKUP_FOLDER : b.tag = p.name /\ b.ts = p.ts).data
        ELSE Absent
    ELSE IF p.dir = "ext" THEN Tamper(d.DB_DUMP_ENC)
    ELSE Absent

RestorePaths(d) ==
    {DumpPath, CsvEncPath, TamperedPath}
        \cup {BackupPath("dbdump", b.ts) : b \in {x \in d.BACKUP_FOLDER : x.tag = "dbdump"}}

-----------------------------------------------------------------------------
(* The state machine *)

EmptyDir ==
    [DB_FILE |-> Absent, CSV_FILE |-> Absent, EXCEL_FILE |-> Absent,
     CSV_ENC |-> Absent, XLSX_ENC |-> Absent, DB_DUMP_ENC |-> Absent,
     STATE_FILE |-> Absent, STATE_ENC |-> Absent, TMP_DUMP |-> Absent, BACKUP_FOLDER |-> {}]

NoArg == [c |-> NoKey, s |-> <<>>]
NoRes == [op |-> "none", val |-> <<>>]

Init ==
    /\ fs = EmptyDir
    /\ keyMaterial = NoKeyMaterial
    /\ CIPHER = NoKey
    /\ pc = "off"
    /\ now = 0
    /\ argv = [cmd |-> "none", path |-> NoPath]
    /\ exitStatus = "none"
    /\ bootLog = "none"
    /\ arg = NoArg
    /\ res = NoRes

\* process start: the module is imported (CIPHER = get_cipher(), create_db())
\* and bootstrap() runs; an exception in get_cipher() ends the import, and
\* the process, there
Start(salt, key) ==
    /\ pc = "off"
    /\ LET g == get_cipher(keyMaterial, salt, key)
           b == bootstrap(fs, g.key)
       IN  /\ keyMaterial' = g.km
           /\ IF g.ok
              THEN /\ CIPHER' = g.key
                   /\ fs' = b.fs
                   /\ bootLog' = b.log
                   /\ pc' = "main"
                   /\ exitStatus' = "none"
              ELSE /\ CIPHER' = NoKey
                   /\ fs' = fs
                   /\ bootLog' = "none"
                   /\ pc' = "off"
                   /\ exitStatus' = "error"
    /\ argv' = [cmd |-> "none", path |-> NoPath]
    /\ UNCHANGED <<now, arg, res>>

\* no command on the command line: run_app()
RunApp ==
    /\ pc = "main"
    /\ pc' = "serving"
    /\ argv' = [cmd |-> "serve", path |-> NoPath]
    /\ UNCHANGED <<fs, keyMaterial, CIPHER, now, exitStatus, bootLog, arg, res>>

\* "restore <path>" on the command line; an exception ends the process with a
\* traceback and a non-zero status
RestoreCmd(p) ==
    /\ pc = "main"
    /\ LET r == restore_from_encrypted_dump(fs, CIPHER, ReadPath(fs, p))
       IN  /\ fs' = r.fs
           /\ exitStatus' = IF r.ok THEN "ok" ELSE "error"
    /\ pc' = "off"
    /\ argv' = [cmd |-> "restore", path |-> p]
    /\ UNCHANGED <<keyMaterial, CIPHER, now, bootLog, arg, res>>

\* every save_entry appends one line to the workbook, which nothing truncates
SavesMade(d) == IF Exists(d.EXCEL_FILE) THEN Len(d.EXCEL_FILE.rows) ELSE 0

\* POST /add: save_entry(today, ..., note, auto_tag(note)); ts is the second
\* backup_all reads from the clock; at most maxRows entries are ever saved
AddEntryBounded(date, note, ts, maxRows) ==
    /\ pc = "serving"
    /\ HasTable(fs.DB_FILE)
    /\ SavesMade(fs) < maxRows
    /\ ts \in {now, now + 1} \ {0}
    /\ ts = now => SavesMade(fs) - now < MaxSameSecond
    /\ fs' = save_entry(fs, CIPHER, date, note, auto_tag(note), ts)
    /\ now' = ts
    /\ UNCHANGED <<keyMaterial, CIPHER, pc, argv, exitStatus, bootLog, arg, res>>

AddEntry(date, note, ts) == AddEntryBounded(date, note, ts, MaxRows)

\* the web process is stopped
Kill ==
    /\ pc = "serving"
    /\ pc' = "off"
    /\ UNCHANGED <<fs, keyMaterial, CIPHER, now, argv, exitStatus, bootLog, arg, res>>

\* environment, between runs: the live database file is lost
DbFileLost ==
    /\ pc = "off"
    /\ Exists(fs.DB_FILE)
    /\ fs' = [fs EXCEPT !.DB_FILE = Absent]
    /\ UNCHANGED <<keyMaterial, CIPHER, pc, now, argv, exitStatus, bootLog, arg, res>>

\* environment, between runs: a byte of the sealed dump is flipped
DumpTampered ==
    /\ pc = "off"
    /\ Exists(fs.DB_DUMP_ENC)
    /\ fs.DB_DUMP_ENC.key # NoKey
    /\ fs' = [fs EXCEPT !.DB_DUMP_ENC = Tamper(@)]
    /\ UNCHANGED <<keyMaterial, CIPHER, pc, now, argv, exitStatus, bootLog, arg, res>>

\* environment, between runs: the operator deletes the key file and the salt
\* file (the key file of FirstKey only: at most one key change)
KeyChanged ==
    /\ pc = "off"
    /\ keyMaterial.SECRET_KEY_FILE = BytesFile(FirstKey)
    /\ keyMaterial' = [keyMaterial EXCEPT !.SECRET_KEY_FILE = Absent,
                                          !.KDF_SALT_FILE = Absent]
    /\ UNCHANGED <<fs, CIPHER, pc, now, argv, exitStatus, bootLog, arg, res>>

Next ==
    \/ \E salt \in Salts, key \in KeyIds : Start(salt, key)
    \/ RunApp
    \/ \E p \in RestorePaths(fs) : RestoreCmd(p)
    \/ \E date \in Dates, note \in Notes, ts \in 1..MaxRows : AddEntry(date, note, ts)
    \/ Kill
    \/ DbFileLost
    \/ DumpTampered
    \/ KeyChanged

Spec == Init /\ [][Next]_vars

-----------------------------------------------------------------------------
(* A long run of saves under one key, for the backup rotation *)

AddEntryLong(ts) == AddEntryBounded(1, <<>>, ts, MaxSaves)

\* a caller of the module stores the application state: save_state(0, 0)
SaveState ==
    /\ pc = "serving"
    /\ ~Exists(fs.STATE_ENC)
    /\ fs' = save_state(fs, CIPHER, 0, 0)
    /\ UNCHANGED <<keyMaterial, CIPHER, pc, now, argv, exitStatus, bootLog, arg, res>>

\* one key in this run: retention does not depend on which key is generated
NextBackup ==
    \/ \E salt \in Salts, key \in {FirstKey} : Start(salt, key)
    \/ RunApp
    \/ SaveState
    \/ \E ts \in 1..MaxSaves : AddEntryLong(ts)
    \/ Kill

SpecBackup == Init /\ [][NextBackup]_vars

-----------------------------------------------------------------------------
(* Runs under each passphrase setting, with key material deleted or damaged
   between runs *)

InitKey ==
    /\ fs = EmptyDir
    /\ \E p \in Passphrases : keyMaterial = [NoKeyMaterial EXCEPT !.passphrase = p]
    /\ CIPHER = NoKey
    /\ pc = "off"
    /\ now = 0
    /\ argv = [cmd |-> "none", path |-> NoPath]
    /\ exitStatus = "none"
    /\ bootLog = "none"
    /\ arg = NoArg
    /\ res = NoRes

AddCoffee(ts) == AddEntryBounded(1, Coffee, ts, MaxRows)

\* environment, between runs: the operator deletes the key file and the salt
\* file
KeyFilesDeleted ==
    /\ pc = "off"
    /\ Exists(keyMaterial.SECRET_KEY_FILE) \/ Exists(keyMaterial.KDF_SALT_FILE)
    /\ keyMaterial' = [keyMaterial EXCEPT !.SECRET_KEY_FILE = Absent,
                                          !.KDF_SALT_FILE = Absent]
    /\ UNCHANGED <<fs, CIPHER, pc, now, argv, exitStatus, bootLog, arg, res>>

\* environment, between runs: the salt file is truncated, or loses its read
\* permission
SaltDamaged(f) ==
    /\ pc = "off"
    /\ Exists(keyMaterial.KDF_SALT_FILE)
    /\ keyMaterial.KDF_SALT_FILE.kind = "bytes"
    /\ keyMaterial.KDF_SALT_FILE.val # Malformed
    /\ keyMaterial' = [keyMaterial EXCEPT !.KDF_SALT_FILE = f]
    /\ UNCHANGED <<fs, CIPHER, pc, now, argv, exitStatus, bootLog, arg, res>>

\* environment, between runs: the key file is truncated, or loses its read
\* permission
KeyFileDamaged(f) ==
    /\ pc = "off"
    /\ Exists(keyMaterial.SECRET_KEY_FILE)
    /\ keyMaterial.SECRET_KEY_FILE.kind = "bytes"
    /\ keyMaterial.SECRET_KEY_FILE.val # Malformed
    /\ keyMaterial' = [keyMaterial EXCEPT !.SECRET_KEY_FILE = f]
    /\ UNCHANGED <<fs, CIPHER, pc, now, argv, exitStatus, bootLog, arg, res>>

Damaged == {BytesFile(Malformed), Unreadable}

NextKey ==
    \/ \E salt \in Salts, key \in KeyIds : Start(salt, key)
    \/ RunApp
    \/ SaveState
    \/ \E ts \in 1..MaxRows : AddCoffee(ts)
    \/ Kill
    \/ KeyFilesDeleted
    \/ \E f \in Damaged : SaltDamaged(f)
    \/ \E f \in Damaged : KeyFileDamaged(f)

SpecKey == InitKey /\ [][NextKey]_vars

-----------------------------------------------------------------------------
(* Saves that are cut short: the process is stopped inside save_entry, or a
   backup record cannot be written *)

AddEntryWhole(date, note, ts) ==
    /\ Len(TableRows(fs.DB_FILE)) < MaxRows
    /\ AddEntry(date, note, ts)

\* the process is stopped after k steps of save_entry; torn: it had begun the
\* sealed write of step k + 1
SaveEntryKilled(date, note, k, torn) ==
    /\ pc = "serving"
    /\ HasTable(fs.DB_FILE)
    /\ SavesMade(fs) < MaxRows
    /\ Len(fs.DB_FILE.rows) < MaxRows
    /\ torn => k < Len(SaveSteps) /\ SaveSteps[k + 1] \in DOMAIN fs
    /\ LET d == save_entry_upto(fs, CIPHER, date, note, auto_tag(note), k)
           next == save_entry_upto(fs, CIPHER, date, note, auto_tag(note), k + 1)
       IN  fs' = IF torn
                 THEN write_file_secure(d, SaveSteps[k + 1], next[SaveSteps[k + 1]], FALSE)
                 ELSE d
    /\ pc' = "off"
    /\ exitStatus' = "killed"
    /\ UNCHANGED <<keyMaterial, CIPHER, now, argv, bootLog, arg, res>>

\* POST /add while the record of one category cannot be written
AddEntryBackupFails(date, note, ts, failing) ==
    /\ pc = "serving"
    /\ HasTable(fs.DB_FILE)
    /\ SavesMade(fs) < MaxRows
    /\ Len(fs.DB_FILE.rows) < MaxRows
    /\ ts = now + 1
    /\ LET d == save_entry_upto(fs, CIPHER, date, note, auto_tag(note), Len(SaveSteps))
           r == backup_all_io(d, CIPHER, ts, failing)
       IN  /\ fs' = r.fs
           /\ exitStatus' = IF r.raised THEN "raised" ELSE "none"
    /\ now' = ts
    /\ UNCHANGED <<keyMaterial, CIPHER, pc, argv, bootLog, arg, res>>

NextCrash ==
    \/ \E salt \in Salts, key \in KeyIds : Start(salt, key)
    \/ RunApp
    \/ \E date \in Dates, note \in Notes, ts \in 1..MaxRows : AddEntryWhole(date, note, ts)
    \/ \E date \in Dates, note \in Notes, k \in 1..Len(SaveSteps), torn \in BOOLEAN :
          SaveEntryKilled(date, note, k, torn)
    \/ \E date \in Dates, note \in Notes, ts \in 1..MaxRows, failing \in Tags :
          AddEntryBackupFails(date, note, ts, failing)
    \/ Kill

SpecCrash == Init /\ [][NextCrash]_vars

-----------------------------------------------------------------------------
(* Process start, one statement at a time *)

BootStepsRestoreFirst ==
    <<"get_cipher", "restore", "create_db", "bootstrap.create_db", "rebuild", "persist">>

\* the statements a process start executes, in program order: CIPHER =
\* get_cipher(), create_db(), then those of bootstrap()
BootSteps ==
    <<"get_cipher", "create_db", "bootstrap.create_db", "restore", "rebuild", "persist">>

\* pc is inside a start-up: some step is done and some step is left
InBoot(p) == \E i \in 1..(Len(BootSteps) - 1) : BootSteps[i] = p

BootIndex(p) ==
    IF InBoot(p) THEN CHOOSE i \in 1..Len(BootSteps) : BootSteps[i] = p ELSE 0

\* the next statement of the start-up runs
BootStep(salt, key) ==
    /\ pc = "off" \/ InBoot(pc)
    /\ LET step == BootSteps[BootIndex(pc) + 1]
           g == get_cipher(keyMaterial, salt, key)
           r == restore_from_db_dump_if_any(fs, CIPHER)
       IN  /\ keyMaterial' = IF step = "get_cipher" THEN g.km ELSE keyMaterial
           /\ CIPHER' = IF step # "get_cipher" THEN CIPHER
                         ELSE IF g.ok THEN g.key ELSE NoKey
           /\ fs' = IF step \in {"create_db", "bootstrap.create_db"}
                        THEN [fs EXCEPT !.DB_FILE = create_db(@)]
                    ELSE IF step = "restore" THEN r.fs
                    ELSE IF step = "rebuild"
                        THEN IF Exists(fs.CSV_FILE) THEN fs
                             ELSE rebuild_csv_from_db(fs, CIPHER)
                    ELSE IF step = "persist"
                        THEN persist_csv_and_excel_encrypted(fs, CIPHER)
                    ELSE fs
           /\ bootLog' = IF step = "restore" THEN r.log
                         ELSE IF step = "get_cipher" THEN "none" ELSE bootLog
           /\ exitStatus' = IF step # "get_cipher" THEN exitStatus
                             ELSE IF g.ok THEN "none" ELSE "error"
           /\ argv' = IF step = "get_cipher"
                      THEN [cmd |-> "none", path |-> NoPath] ELSE argv
           /\ pc' = IF step = "get_cipher" /\ ~g.ok THEN "off"
                    ELSE IF step = BootSteps[Len(BootSteps)] THEN "main"
                    ELSE step
    /\ UNCHANGED <<now, arg, res>>

NextBoot ==
    \/ \E salt \in Salts, key \in KeyIds : BootStep(salt, key)
    \/ RunApp
    \/ \E date \in Dates, note \in Notes, ts \in 1..MaxRows : AddEntry(date, note, ts)
    \/ Kill
    \/ DbFileLost

SpecBoot == Init /\ [][NextBoot]_vars

-----------------------------------------------------------------------------
(* The field cipher applied to bounded inputs *)

InitCipher ==
    /\ fs = EmptyDir
    /\ \E key \in KeyIds :
         /\ keyMaterial = [NoKeyMaterial EXCEPT !.SECRET_KEY_FILE = BytesFile(key)]
         /\ CIPHER = key
    /\ pc = "main"
    /\ now = 0
    /\ argv = [cmd |-> "none", path |-> NoPath]
    /\ exitStatus = "none"
    /\ bootLog = "none"
    /\ arg \in [c : {CIPHER}, s : TextInputs]
    /\ res = NoRes

CallEncText ==
    /\ res.op = "none"
    /\ res' = [op |-> "enc_text", val |-> enc_text(arg.c, arg.s)]
    /\ UNCHANGED <<fs, keyMaterial, CIPHER, pc, now, argv, exitStatus, bootLog, arg>>

CallDecText ==
    /\ res.op = "none"
    /\ res' = [op |-> "dec_text", val |-> dec_text(arg.c, arg.s)]
    /\ UNCHANGED <<fs, keyMaterial, CIPHER, pc, now, argv, exitStatus, bootLog, arg>>

\* enc_text, then dec_text of what it returned
CallDecOfEnc ==
    /\ res.op = "enc_text"
    /\ res' = [op |-> "dec_enc", val |-> dec_text(arg.c, res.val)]
    /\ UNCHANGED <<fs, keyMaterial, CIPHER, pc, now, argv, exitStatus, bootLog, arg>>

NextCipher == CallEncText \/ CallDecText \/ CallDecOfEnc

SpecCipher == InitCipher /\ [][NextCipher]_vars

-----------------------------------------------------------------------------
(* Vocabulary of the properties *)

\* the step is the operator's restore command / a process start / a save
RestoreStep == pc = "main" /\ pc' = "off" /\ argv'.cmd = "restore"
StartStep == pc = "off" /\ pc' = "main"
SaveStep == pc = "serving" /\ pc' = "serving" /\ fs'.DB_FILE # fs.DB_FILE

\* the file handed to the restore command, as it is before the step
RestoreSrc == ReadPath(fs, argv'.path)

\* f is a sealed blob that authenticates under key c
OpensUnder(c, f) == Exists(f) /\ f.kind = "sealed" /\ f.key = c

\* f is a sealed blob under key c holding an SQL dump script
IsDumpUnder(c, f) == OpensUnder(c, f) /\ f.plain.kind = "sql"

\* the rows a dump script holds, in script order
InsertedRows(script) ==
    LET ins == SelectSeq(script, LAMBDA st : st.op = "INSERT")
    IN  [i \in 1..Len(ins) |-> ins[i].row]

IsPrefix(s, t) == Len(s) <= Len(t) /\ \A i \in 1..Len(s) : s[i] = t[i]

\* what the export shows for a stored field: the plaintext when the field is
\* a token of the active key, the stored value itself otherwise
Shown(c, t) == IF t # <<>> /\ t[1] = Hdr(c) THEN SubSeq(t, 2, Len(t)) ELSE t

\* lines is the export of rows: one line per row, by date and then id
ExportMatches(lines, rows, c) ==
    /\ Len(lines) = Len(rows)
    /\ \A i \in 1..Len(rows) :
         LET r == rows[i]
             pos == 1 + Cardinality({j \in 1..Len(rows) :
                        \/ rows[j].date < r.date
                        \/ rows[j].date = r.date /\ rows[j].id < r.id})
         IN  lines[pos] = [date |-> r.date, note |-> Shown(c, r.note),
                           tags |-> Shown(c, r.tags)]

\* stored is what the table may hold for the text under key c
StoredFor(c, text, stored) ==
    IF text = <<>> THEN stored = <<>>
    ELSE stored # <<>> /\ stored # text /\ dec_text(c, stored) = text

IsToken(t) == t # <<>> /\ t[1] \in {Hdr(k) : k \in KeyIds}

\* the file of the key material that get_cipher reads under the passphrase
\* setting of km
UsedFile(km) ==
    IF km.passphrase = "pw" THEN km.KDF_SALT_FILE ELSE km.SECRET_KEY_FILE

\* f exists, can be read and holds bytes as the program writes them
Intact(f) == Exists(f) /\ f.kind = "bytes" /\ f.val # Malformed

\* what the plaintext of a category's artifact is
ArtifactKind(tag) ==
    IF tag = "dbdump" THEN "sql" ELSE IF tag = "csv" THEN "csv"
    ELSE IF tag = "excel" THEN "xlsx" ELSE "json"

\* the export line of a stored row
ShownRow(c, r) == [date |-> r.date, note |-> Shown(c, r.note), tags |-> Shown(c, r.tags)]

\* lines holds exactly the rows, each as often as the table holds it, in any
\* order
SameLines(lines, rows, c) ==
    /\ Len(lines) = Len(rows)
    /\ \A i \in 1..Len(rows) :
         Cardinality({j \in 1..Len(lines) : lines[j] = ShownRow(c, rows[i])})
           = Cardinality({j \in 1..Len(rows) : ShownRow(c, rows[j]) = ShownRow(c, rows[i])})

\* the paths of the sealed artifacts in the data directory
SealedPaths == {"CSV_ENC", "XLSX_ENC", "DB_DUMP_ENC", "STATE_ENC"}

Records(d, tag) == {b \in d.BACKUP_FOLDER : b.tag = tag}
Stamps(d, tag) == {b.ts : b \in Records(d, tag)}
Min2(a, b) == IF a <= b THEN a ELSE b

-----------------------------------------------------------------------------
(* C1: a restore whose sealed dump fails authentication (tampered, or sealed
   under another key, or missing) changes nothing in the live database and
   reports failure: the operator command ends with an error status, the
   start-up restore logs the failure and the table holds the rows it held. *)
C1_AuthFailureLeavesStore ==
    [][ /\ (RestoreStep /\ ~OpensUnder(CIPHER, RestoreSrc))
              => (fs'.DB_FILE = fs.DB_FILE /\ exitStatus' = "error")
        /\ (StartStep /\ Exists(fs.DB_DUMP_ENC) /\ ~OpensUnder(CIPHER', fs.DB_DUMP_ENC))
              => /\ TableRows(fs'.DB_FILE) = TableRows(fs.DB_FILE)
                 /\ HasTable(fs'.DB_FILE)
                 /\ bootLog' = "failed" ]_vars

\* a tampered dump was refused at start-up and again by the restore command,
\* and the table still holds rows
C1_Witness ==
    /\ pc = "off" /\ argv.cmd = "restore" /\ argv.path = TamperedPath
    /\ exitStatus = "error" /\ bootLog = "failed"
    /\ Exists(fs.DB_DUMP_ENC) /\ fs.DB_DUMP_ENC.key = NoKey
    /\ Len(TableRows(fs.DB_FILE)) > 0

(* C2: when the restore command decrypts its file and then fails, the rows of
   the finance table are the same after the call as before it. *)
C2_ScriptErrorLeavesStore ==
    [][ (RestoreStep /\ OpensUnder(CIPHER, RestoreSrc) /\ exitStatus' = "error")
            => TableRows(fs'.DB_FILE) = TableRows(fs.DB_FILE) ]_vars

(* C3: the restore command given a dump sealed under the active key succeeds,
   leaves in the table exactly the rows of the dump, and the plaintext export
   holds one line per restored row, by date and id, with note and tags as
   dec_text shows them; and the dump that a save seals holds exactly the rows
   of the table at that moment. *)
C3_RestoreRoundTrip ==
    [][ /\ (RestoreStep /\ IsDumpUnder(CIPHER, RestoreSrc))
              => /\ exitStatus' = "ok"
                 /\ HasTable(fs'.DB_FILE)
                 /\ fs'.DB_FILE.rows = InsertedRows(RestoreSrc.plain.script)
                 /\ Exists(fs'.CSV_FILE)
                 /\ ExportMatches(fs'.CSV_FILE.rows, fs'.DB_FILE.rows, CIPHER)
        /\ SaveStep
              => /\ IsDumpUnder(CIPHER, fs'.DB_DUMP_ENC)
                 /\ InsertedRows(fs'.DB_DUMP_ENC.plain.script) = fs'.DB_FILE.rows ]_vars

\* a restore from an older dump succeeded: two entries had been saved, one row
\* is in the table, and the export shows its note in plaintext
C3_Witness ==
    /\ pc = "off" /\ argv.cmd = "restore" /\ exitStatus = "ok"
    /\ SavesMade(fs) = 2
    /\ Len(TableRows(fs.DB_FILE)) = 1
    /\ fs.DB_FILE.rows[1].note = <<Hdr(CIPHER)>> \o Coffee
    /\ fs.CSV_FILE.rows = <<[date |-> fs.DB_FILE.rows[1].date, note |-> Coffee,
                             tags |-> FoodTag]>>

(* C4: a start that finds no live database file but a dump sealed under its
   key ends with the table holding exactly the rows of the dump. *)
C4_BootRestoresDump ==
    [][ (StartStep /\ ~Exists(fs.DB_FILE) /\ IsDumpUnder(CIPHER', fs.DB_DUMP_ENC))
            => /\ HasTable(fs'.DB_FILE)
               /\ fs'.DB_FILE.rows = InsertedRows(fs.DB_DUMP_ENC.plain.script) ]_vars

(* C5: a start that finds a live database leaves its rows as they are, dump
   or no dump; a save keeps every existing row and adds one; and the only
   step of the program after which an existing row is gone or changed is the
   operator's restore command. *)
C5_OnlyRestoreCmdReplacesRows ==
    [][ /\ (StartStep /\ Exists(fs.DB_FILE))
              => TableRows(fs'.DB_FILE) = TableRows(fs.DB_FILE)
        /\ SaveStep
              => /\ IsPrefix(TableRows(fs.DB_FILE), TableRows(fs'.DB_FILE))
                 /\ Len(TableRows(fs'.DB_FILE)) = Len(TableRows(fs.DB_FILE)) + 1
        /\ (Exists(fs'.DB_FILE) /\ ~IsPrefix(TableRows(fs.DB_FILE), TableRows(fs'.DB_FILE)))
              => RestoreStep ]_vars

\* a process started on a live database holding rows while a dump sealed under
\* its key held other rows: the dump was not applied
C5_Witness ==
    /\ pc = "main" /\ bootLog = "failed"
    /\ IsDumpUnder(CIPHER, fs.DB_DUMP_ENC)
    /\ Len(TableRows(fs.DB_FILE)) > 0
    /\ InsertedRows(fs.DB_DUMP_ENC.plain.script) # TableRows(fs.DB_FILE)

(* C6: a save (its backup_all) leaves, in each category, at most
   BACKUP_RETENTION records: of the records it found and the one it wrote,
   the BACKUP_RETENTION with the latest timestamps, every dropped record being
   older than every kept one; no two records of a category share a
   timestamp, so nothing is left to a tie-break. *)
C6_RetentionKeepsMostRecent ==
    [][ SaveStep =>
          \A tag \in Tags :
            LET before == Stamps(fs, tag)
                written == tag # "state" \/ Exists(fs.STATE_ENC)
                found == IF written THEN before \cup {now'} ELSE before
                after == Stamps(fs', tag)
            IN  /\ after \subseteq found
                /\ Cardinality(after) = Min2(Cardinality(found), BACKUP_RETENTION)
                /\ \A x \in found \ after : \A y \in after : x < y
                /\ Cardinality(Records(fs', tag)) = Cardinality(after) ]_vars

\* pruning has happened in every category: each holds BACKUP_RETENTION
\* records and the oldest timestamp is gone
C6_Witness ==
    \A tag \in Tags :
        /\ Cardinality(Records(fs, tag)) = BACKUP_RETENTION
        /\ 1 \notin Stamps(fs, tag)
        /\ now \in Stamps(fs, tag)

(* C7: no step overwrites or alters a backup record (a record is in the folder
   unchanged or gone), and after k saves from an empty folder each of the
   categories dbdump, csv and excel holds exactly min(k, BACKUP_RETENTION)
   records. *)
C7_BackupsNeverOverwritten ==
    [][ /\ \A b \in fs.BACKUP_FOLDER :
              \/ b \in fs'.BACKUP_FOLDER
              \/ ~\E b2 \in fs'.BACKUP_FOLDER : b2.tag = b.tag /\ b2.ts = b.ts
        /\ \A tag \in {"dbdump", "csv", "excel"} :
              Cardinality(Records(fs', tag)) = Min2(SavesMade(fs'), BACKUP_RETENTION) ]_vars

(* C8: a save stores note and tags only encrypted: for an empty text the
   stored field is empty; for a non-empty text it is non-empty, differs from
   the text, and dec_text of it under the process's key is the text.  Every
   field of every row of the table is empty or a token. *)
C8_RowsHoldCiphertext ==
    [][ \A date \in Dates, note \in Notes, ts \in 1..MaxRows :
          AddEntry(date, note, ts) =>
            LET rows == fs'.DB_FILE.rows
                r == rows[Len(rows)]
            IN  /\ Len(rows) = Len(fs.DB_FILE.rows) + 1
                /\ StoredFor(CIPHER, note, r.note)
                /\ StoredFor(CIPHER, auto_tag(note), r.tags)
                /\ \A i \in 1..Len(rows) :
                     /\ rows[i].note = <<>> \/ IsToken(rows[i].note)
                     /\ rows[i].tags = <<>> \/ IsToken(rows[i].tags) ]_vars

\* the table holds a row saved with the coffee note and a row saved with an
\* empty note
C8_Witness ==
    /\ pc = "serving" /\ HasTable(fs.DB_FILE)
    /\ \E i \in 1..Len(fs.DB_FILE.rows) :
         /\ fs.DB_FILE.rows[i].note = <<Hdr(CIPHER)>> \o Coffee
         /\ fs.DB_FILE.rows[i].tags = <<Hdr(CIPHER)>> \o FoodTag
    /\ \E i \in 1..Len(fs.DB_FILE.rows) :
         fs.DB_FILE.rows[i].note = <<>> /\ fs.DB_FILE.rows[i].tags = <<>>

(* C9: dec_text of enc_text of a text is the text, and enc_text of the empty
   text is the empty text. *)
C9_FieldRoundTrip ==
    /\ res.op = "dec_enc" => res.val = arg.s
    /\ (res.op = "enc_text" /\ arg.s = <<>>) => res.val = <<>>
    /\ (res.op = "enc_text" /\ arg.s # <<>>) => res.val # arg.s

\* the round trip was made on a text that itself starts like a token of the key
C9_Witness ==
    /\ res.op = "dec_enc" /\ Len(arg.s) >= 2 /\ arg.s[1] = Hdr(arg.c)
    /\ res.val = arg.s

(* C10: dec_text of a value on which Fernet decryption fails under the key
   (empty, tampered, token of another key, never encrypted) is that value. *)
C10_DecTextFallsBack ==
    (res.op = "dec_text" /\ (arg.s = <<>> \/ arg.s[1] # Hdr(arg.c)))
        => res.val = arg.s

\* dec_text was applied to a token of another key and returned it as it is
C10_Witness ==
    /\ res.op = "dec_text" /\ Len(arg.s) >= 2
    /\ \E k \in KeyIds \ {arg.c} : arg.s[1] = Hdr(k)
    /\ res.val = arg.s

(* C11: a process start never changes a salt file or a key file that exists;
   a start that finds the file its passphrase setting uses, as the program
   wrote it, succeeds, writes no key material, and runs under the key of the
   run before it. *)
C11_KeyStableAcrossRuns ==
    [][ \A salt \in Salts, key \in KeyIds :
          Start(salt, key) =>
            /\ Exists(keyMaterial.KDF_SALT_FILE)
                  => keyMaterial'.KDF_SALT_FILE = keyMaterial.KDF_SALT_FILE
            /\ Exists(keyMaterial.SECRET_KEY_FILE)
                  => keyMaterial'.SECRET_KEY_FILE = keyMaterial.SECRET_KEY_FILE
            /\ Intact(UsedFile(keyMaterial))
                  => /\ pc' = "main"
                     /\ keyMaterial' = keyMaterial
                     /\ CIPHER # NoKey => CIPHER' = CIPHER ]_vars

\* a later run under a passphrase: the salt file is the one of the run that
\* saved the rows, and the note of every row opens under this run's key
C11_Witness ==
    /\ pc = "main" /\ keyMaterial.passphrase = "pw"
    /\ Intact(keyMaterial.KDF_SALT_FILE)
    /\ CIPHER = PBKDF2HMAC("pw", keyMaterial.KDF_SALT_FILE.val)
    /\ Len(TableRows(fs.DB_FILE)) = 2
    /\ \A i \in 1..2 : fs.DB_FILE.rows[i].note = <<Hdr(CIPHER)>> \o Coffee

(* C12: a process start that finds the file its passphrase setting uses
   unreadable or malformed stops with an error: no key is in use, and no file
   of the data directory or of the key material is changed. *)
C12_BadKeyMaterialStopsStart ==
    [][ \A salt \in Salts, key \in KeyIds :
          (Start(salt, key) /\ Exists(UsedFile(keyMaterial))
                           /\ ~Intact(UsedFile(keyMaterial)))
            => /\ pc' = "off" /\ exitStatus' = "error"
               /\ CIPHER' = NoKey
               /\ fs' = fs /\ keyMaterial' = keyMaterial ]_vars

(* C13: a save during which the record of one category cannot be written
   does not end with an exception, and leaves a record of this save in each
   of the other categories dbdump, csv and excel. *)
C13_BackupFailureIsolated ==
    [][ \A date \in Dates, note \in Notes, ts \in 1..MaxRows, failing \in Tags :
          AddEntryBackupFails(date, note, ts, failing) =>
            /\ exitStatus' # "raised"
            /\ \A tag \in {"dbdump", "csv", "excel"} \ {failing} :
                 \E b \in fs'.BACKUP_FOLDER : b.tag = tag /\ b.ts = now' ]_vars

(* C14: every backup record a save writes opens under the process's key and
   holds the plaintext of its category's artifact (the SQL script, the CSV,
   the workbook, the JSON state), never a sealed blob. *)
C14_BackupHoldsPlaintextSealedOnce ==
    [][ SaveStep =>
          \A b \in fs'.BACKUP_FOLDER :
            b.ts = now' => /\ OpensUnder(CIPHER, b.data)
                           /\ b.data.plain.kind = ArtifactKind(b.tag) ]_vars

(* C15: the start after a process was stopped inside save_entry ends with the
   plaintext export holding exactly the rows of the table, and the sealed
   export holding, under the process's key, exactly those rows too. *)
C15_StartRegeneratesStaleExport ==
    [][ (StartStep /\ exitStatus = "killed") =>
          /\ Exists(fs'.CSV_FILE)
          /\ SameLines(fs'.CSV_FILE.rows, TableRows(fs'.DB_FILE), CIPHER')
          /\ OpensUnder(CIPHER', fs'.CSV_ENC)
          /\ fs'.CSV_ENC.plain.kind = "csv"
          /\ SameLines(fs'.CSV_ENC.plain.rows, TableRows(fs'.DB_FILE), CIPHER') ]_vars

(* C16: no sealed artifact and no backup record is ever an incomplete file:
   the file at a final path is absent or is a complete sealed blob. *)
C16_NoPartialSealedFile ==
    /\ \A p \in SealedPaths : fs[p] # Partial
    /\ \A b \in fs.BACKUP_FOLDER : b.data # Partial

(* C17: in every start-up the steps follow one order.  The first schema step
   runs with the key obtained; the restore step runs after the schema steps,
   on a database that has the finance table; the export is rebuilt after the
   restore step and the sealed CSV/XLSX are written after that; and during a
   start-up the table is changed by the schema and restore steps only, the
   plaintext export by the rebuild step only, the sealed CSV/XLSX by the last
   step only. *)
C17_StartupOrder ==
    [][ (pc' # pc /\ (InBoot(pc) \/ InBoot(pc'))) =>
          /\ pc' = "get_cipher" => pc = "off"
          /\ pc' = "create_db" => pc = "get_cipher" /\ CIPHER # NoKey
          /\ pc' = "bootstrap.create_db" => pc = "create_db"
          /\ pc' = "restore" => pc = "bootstrap.create_db" /\ HasTable(fs.DB_FILE)
          /\ pc' = "rebuild" => pc = "restore"
          /\ pc' = "main" => pc = "rebuild"
          /\ CIPHER' # CIPHER => pc' = "get_cipher"
          /\ fs'.DB_FILE # fs.DB_FILE => pc' \in {"create_db", "bootstrap.create_db", "restore"}
          /\ fs'.CSV_FILE # fs.CSV_FILE => pc' = "rebuild"
          /\ (fs'.CSV_ENC # fs.CSV_ENC \/ fs'.XLSX_ENC # fs.XLSX_ENC) => pc' = "main" ]_vars

\* a start-up on a lost database is under way: the key is ready, the table
\* was created, the restore step has run on the sealed dump, and the export
\* still holds the rows of the run before
C17_Witness ==
    /\ pc = "restore" /\ CIPHER # NoKey
    /\ bootLog = "failed" /\ IsDumpUnder(CIPHER, fs.DB_DUMP_ENC)
    /\ HasTable(fs.DB_FILE) /\ fs.DB_FILE.rows = <<>>
    /\ Exists(fs.CSV_FILE) /\ Len(fs.CSV_FILE.rows) > 0

====
